---- MODULE Spec2Model ----
(***************************************************************************)
(* The PostgreSQL tool server (src/postgres/index.ts, tools/tables.ts) as  *)
(* a state machine: protocol requests, the pg connection pool they share,  *)
(* the per-connection statement queue of the pg client, and the database   *)
(* (transaction status per connection, committed set of public tables).    *)
(*                                                                         *)
(* One action is one turn of the event loop: an event arrives (a request,  *)
(* the outcome of a connection attempt, the outcome of the statement at    *)
(* the head of a connection's queue, a connect timeout) and the handler    *)
(* that awaited it runs up to its next await.                              *)
(***************************************************************************)
EXTENDS Integers, Sequences, FiniteSets, TLC

VARIABLES req, conn, idle, pendingQueue, db, formatted, options

vars == <<req, conn, idle, pendingQueue, db, formatted, options>>

\* ---------------------------------------------------------------- bounds
\* The sizes given to formatBytes have at most MaxDigits digits in base 1024.
MaxDigits == 11
\* Where every request has to finish, NumLive requests share a pool of
\* MaxPool clients at most.
NumLive == 2
MaxPool == 2

\* Requests 1..NumHung arrive first and run a statement that never returns;
\* they load the pool. Requests NumHung+1 .. NumHung+NumFree are arbitrary.
NumHung == 19
NumFree == 2

\* ------------------------------------------------------ program constants
\* mutant: the pool is configured with one client more
max_OneMore == 20 + 1

\* new pg.Pool({ max: 20, ... })
max == 20

SCHEMA_PATH == "schema"

Reqs == 1..(NumHung + NumFree)
\* client objects the pool could create: one more than it is allowed to
Clients == 1..(max + 1)
\* the public tables the statements may create
Tables == {1}

\* ------------------------------------------------------------ statements
BEGIN_RO == "BEGIN TRANSACTION READ ONLY"
BEGIN_RW == "BEGIN"
COMMIT == "COMMIT"
ROLLBACK == "ROLLBACK"
SQL == "sql"
COUNT_QUERY == "SELECT COUNT(*) FROM information_schema.tables"
DETAIL_QUERY == "SELECT table_name, column_count, size_bytes FROM information_schema.tables"
LIST_QUERY == "SELECT table_name FROM information_schema.tables"
COLUMNS_QUERY == "SELECT column_name, data_type FROM information_schema.columns"

\* A caller-supplied SQL text is a sequence of statements sent as one simple
\* query message. Create(t) stands for any mutating statement.
Select == [op |-> "SELECT", t |-> 0]
Create(t) == [op |-> "CREATE", t |-> t]
Commit == [op |-> "COMMIT", t |-> 0]
Sleep == [op |-> "SLEEP", t |-> 0]
\* request.params.arguments?.sql when the argument is absent
Undefined == <<[op |-> "undefined", t |-> 0]>>

\* ---------------------------------------------------------------- errors
NoError == <<"none", "none">>
QueryError(stmt) == <<"QueryError", stmt>>
ConnectError == <<"ConnectError", "connect">>
PoolExhausted == <<"timeout exceeded when trying to connect", "connect">>
TypeError == <<"TypeError: Client was passed a null or undefined query", SQL>>
UnknownTool(name) == <<"Unknown tool: ", name>>
InvalidResourceURI == <<"Invalid resource URI", "uri">>

\* --------------------------------------------------------------- requests
NoResponse == [how |-> "none", isError |-> FALSE, error |-> NoError,
               keys |-> {}, prefix |-> "", tableCount |-> 0, rows |-> <<>>]

NewRequest == [pc |-> "new", name |-> "", fn |-> "", sql |-> <<>>, uri |-> <<>>,
               client |-> 0, error |-> NoError, tableCount |-> 0,
               response |-> NoResponse,
               \* history: the calls made and their order, the first call
               \* that failed, the count the database answered and the
               \* tables it counted, whether a message of the request
               \* changed the committed tables
               log |-> <<>>, first |-> NoError, counted |-> -1, seen |-> {},
               wrote |-> FALSE]

NewClient == [st |-> "absent", holder |-> 0, txn |-> "none", writes |-> {},
              queryQueue |-> <<>>]

\* a call of formatBytes: its argument, and what it computed once it has
\* returned
NoCall == [bytes |-> <<>>, i |-> -1, unit |-> "", text |-> ""]

Init ==
    /\ req = [r \in Reqs |-> NewRequest]
    /\ conn = [c \in Clients |-> NewClient]
    /\ idle = <<>>
    /\ pendingQueue = <<>>
    /\ db \in SUBSET Tables
    /\ formatted = NoCall
    /\ options = [max |-> max]

\* ------------------------------------------------------------ the database
\* Messages the handlers send themselves: one statement each.
Text(stmt, sql) ==
    CASE stmt = BEGIN_RO -> <<[op |-> "BEGIN READ ONLY", t |-> 0]>>
      [] stmt = BEGIN_RW -> <<[op |-> "BEGIN", t |-> 0]>>
      [] stmt = COMMIT -> <<Commit>>
      [] stmt = ROLLBACK -> <<[op |-> "ROLLBACK", t |-> 0]>>
      [] stmt = SQL -> sql
      [] OTHER -> <<Select>>

\* A session is the server side of one connection: txn is "none" (no
\* transaction), "implicit" (inside a simple-query message sent outside a
\* block), "ro" / "rw" (inside a block opened by BEGIN) or "aborted" (a
\* statement of the block failed; only COMMIT / ROLLBACK are accepted).
\* writes are the tables created and not yet committed.
Raise(s) ==
    [ok |-> FALSE, db |-> s.db, writes |-> {},
     txn |-> IF s.txn \in {"ro", "rw", "aborted"} THEN "aborted" ELSE "none"]

Step(s, stmt) ==
    CASE stmt.op = "SELECT" ->
            IF s.txn = "aborted" THEN Raise(s) ELSE s
      [] stmt.op = "CREATE" ->
            IF s.txn \in {"aborted", "ro"} \/ stmt.t \in s.db \union s.writes
            THEN Raise(s)
            ELSE [s EXCEPT !.writes = @ \union {stmt.t}]
      [] stmt.op = "BEGIN" ->
            IF s.txn = "aborted" THEN Raise(s)
            ELSE IF s.txn = "implicit" THEN [s EXCEPT !.txn = "rw"] ELSE s
      [] stmt.op = "BEGIN READ ONLY" ->
            IF s.txn = "aborted" THEN Raise(s)
            ELSE IF s.txn = "implicit" THEN [s EXCEPT !.txn = "ro"] ELSE s
      [] stmt.op = "COMMIT" ->
            IF s.txn = "aborted"
            THEN [s EXCEPT !.txn = "implicit", !.writes = {}]
            ELSE [s EXCEPT !.txn = "implicit", !.writes = {},
                           !.db = @ \union s.writes]
      [] stmt.op = "ROLLBACK" ->
            [s EXCEPT !.txn = "implicit", !.writes = {}]
      [] OTHER -> Raise(s)

RECURSIVE Run(_, _)
Run(s, text) ==
    IF text = <<>> \/ ~s.ok THEN s
    ELSE Run(Step(s, Head(text)), Tail(text))

\* The whole message: statements outside a block run in one implicit
\* transaction, committed when the message ends without an error.
Execute(txn, writes, dbv, text, fail) ==
    LET s0 == [ok |-> TRUE, db |-> dbv, writes |-> writes,
               txn |-> IF txn = "none" THEN "implicit" ELSE txn]
        s1 == IF fail THEN Raise(s0) ELSE Run(s0, text)
    IN  IF s1.ok /\ s1.txn = "implicit"
        THEN [s1 EXCEPT !.txn = "none", !.writes = {}, !.db = @ \union s1.writes]
        ELSE s1

RECURSIVE SortedSeq(_)
SortedSeq(S) ==
    IF S = {} THEN <<>>
    ELSE LET m == CHOOSE x \in S : \A y \in S : x <= y
         IN  <<m>> \o SortedSeq(S \ {m})

\* result.rows of the catalog queries, over the tables the session sees
Rows(stmt, visible) ==
    CASE stmt = COUNT_QUERY -> <<Cardinality(visible)>>
      [] stmt \in {DETAIL_QUERY, LIST_QUERY} -> SortedSeq(visible)
      [] OTHER -> <<>>

Hangs(text) == \E i \in 1..Len(text) : text[i].op = "SLEEP"

\* COUNT(*) is a bigint, which pg hands over as a decimal string
RECURSIVE ToDecimal(_)
ToDecimal(n) == IF n < 10 THEN <<n>> ELSE ToDecimal(n \div 10) \o <<n % 10>>

RECURSIVE parseInt(_)
parseInt(digits) ==
    IF digits = <<>> THEN 0
    ELSE 10 * parseInt(SubSeq(digits, 1, Len(digits) - 1)) + digits[Len(digits)]

\* ------------------------------------------------- bookkeeping per request
\* A world is the part of the state the handlers and the pool change.
World == [req |-> req, conn |-> conn, idle |-> idle, pendingQueue |-> pendingQueue]

Log(w, r, what, arg, c) ==
    [w EXCEPT !.req[r].log = Append(@, <<what, arg, c>>)]

\* a call request r awaited (or made) failed
Fails(w, r, error) ==
    IF w.req[r].first = NoError THEN [w EXCEPT !.req[r].first = error] ELSE w

\* the handler's promise settles: the protocol client gets a result ...
Return(w, r, response) ==
    [w EXCEPT !.req[r].pc = "done",
              !.req[r].response = [response EXCEPT !.how = "return"]]

\* ... or an error
Throw(w, r, error) ==
    [w EXCEPT !.req[r].pc = "done",
              !.req[r].response = [NoResponse EXCEPT !.how = "throw",
                                                     !.error = error]]

\* client.query(stmt): the pg client appends to its queue and sends the
\* messages of the queue one at a time
Query(w, r, stmt, awaited) ==
    LET c == w.req[r].client
        q == [stmt |-> stmt, text |-> Text(stmt, w.req[r].sql), by |-> r,
              awaited |-> awaited]
    IN  Log([w EXCEPT !.conn[c].queryQueue = Append(@, q)], r, "query", stmt, c)

\* ------------------------------------------------------------- the pool
isFull(w) ==
    Cardinality({c \in Clients : w.conn[c].st # "absent"}) >= options.max

\* what each caller of pool.connect() does with the client it is given
Connected(w, r) ==
    LET fn == w.req[r].fn
        stmt == CASE fn = "query" -> BEGIN_RO
                  [] fn = "execute" -> BEGIN_RW
                  [] fn = "countTables" -> COUNT_QUERY
                  [] fn = "getTableDetails" -> DETAIL_QUERY
                  [] fn = "listResources" -> LIST_QUERY
                  [] OTHER -> COLUMNS_QUERY
    IN  Query([w EXCEPT !.req[r].pc = IF fn \in {"query", "execute"}
                                      THEN "begin" ELSE "body"],
              r, stmt, TRUE)

_acquireClient(w, c, r) ==
    Connected(Log([w EXCEPT !.conn[c].st = "leased",
                            !.conn[c].holder = r,
                            !.req[r].client = c],
                  r, "connect", "ok", c), r)

newClient(w, r) ==
    LET c == CHOOSE x \in Clients :
                 /\ w.conn[x].st = "absent"
                 /\ \A y \in Clients : w.conn[y].st = "absent" => x <= y
    IN  [w EXCEPT !.conn[c].st = "connecting", !.conn[c].holder = r,
                  !.req[r].pc = "connect"]

_pulseQueue(w) ==
    IF w.pendingQueue = <<>> THEN w
    ELSE IF w.idle = <<>> /\ isFull(w) THEN w
    ELSE LET r == Head(w.pendingQueue)
             w1 == [w EXCEPT !.pendingQueue = Tail(@)]
         IN  IF w.idle # <<>>
             THEN LET c == w.idle[Len(w.idle)]
                  IN  _acquireClient(
                          [w1 EXCEPT !.idle = SubSeq(@, 1, Len(@) - 1)], c, r)
             ELSE newClient(w1, r)

\* mutant: pool.connect() opens a client whenever none is idle
connect_IgnoresFull(w, r) ==
    IF w.idle # <<>>
    THEN _pulseQueue([w EXCEPT !.pendingQueue = Append(@, r),
                               !.req[r].pc = "connect"])
    ELSE newClient(w, r)

\* pool.connect()
connect(w, r) ==
    IF isFull(w) \/ w.idle # <<>>
    THEN LET w1 == [w EXCEPT !.pendingQueue = Append(@, r),
                             !.req[r].pc = "connect"]
         IN  IF w.idle # <<>> THEN _pulseQueue(w1)
             ELSE Log(w1, r, "connect", "wait", 0)
    ELSE newClient(w, r)

\* client.release()
release(w, r) ==
    LET c == w.req[r].client
    IN  _pulseQueue(Log([w EXCEPT !.conn[c].st = "idle",
                                  !.conn[c].holder = 0,
                                  !.idle = Append(@, c)],
                        r, "release", "", c))

\* ------------------------------------------------------------ the handlers
Payload(isError, keys, prefix, error, tableCount, rows) ==
    [how |-> "return", isError |-> isError, error |-> error, keys |-> keys,
     prefix |-> prefix, tableCount |-> tableCount, rows |-> rows]

\* mutant: the finally block of the query branch without the ROLLBACK
QueryFinally_NoRollback(w, r) == release(w, r)

\* mutant: the finally block of the query branch without client.release()
QueryFinally_NoRelease(w, r) == Query(w, r, ROLLBACK, FALSE)

\* query: finally { client.query("ROLLBACK").catch(warn); client.release(); }
QueryFinally(w, r) == release(Query(w, r, ROLLBACK, FALSE), r)

\* query: a database call of the try block settled (ok) or failed (error)
QueryBranch(w, r, ok, error, rows) ==
    IF ~ok THEN Throw(QueryFinally(w, r), r, error)
    ELSE IF w.req[r].pc = "begin"
    THEN IF w.req[r].sql = Undefined
         THEN Throw(QueryFinally(Fails(w, r, TypeError), r), r, TypeError)
         ELSE Query([w EXCEPT !.req[r].pc = "body"], r, SQL, TRUE)
    ELSE Return(QueryFinally(w, r), r,
                Payload(FALSE, {"content"}, "", NoError, 0, rows))

\* mutant: the execute branch has no finally block
ExecuteRethrow_NoRelease(w, r) == Throw(w, r, w.req[r].error)

\* mutant: the catch block of the execute branch rethrows at once
ExecuteCatch_NoRollback(w, r, error) == Throw(release(w, r), r, error)

\* execute: catch (error) { await client.query("ROLLBACK").catch(warn); ...
ExecuteCatch(w, r, error) ==
    Query([w EXCEPT !.req[r].pc = "rollback", !.req[r].error = error],
          r, ROLLBACK, TRUE)

\* execute: ... throw error; } finally { client.release(); }
ExecuteRethrow(w, r) == Throw(release(w, r), r, w.req[r].error)

\* console.warn("Could not roll back transaction:", error)
Warn(w, r) == Log(w, r, "warn", ROLLBACK, w.req[r].client)

\* mutant: the execute branch answers once the caller's SQL has run
ExecuteBranch_NoCommit(w, r, ok, error, rows) ==
    LET pc == w.req[r].pc
    IN  IF pc = "rollback"
        THEN ExecuteRethrow(IF ok THEN w ELSE Warn(w, r), r)
        ELSE IF ~ok THEN ExecuteCatch(w, r, error)
        ELSE IF pc = "begin"
        THEN IF w.req[r].sql = Undefined
             THEN ExecuteCatch(Fails(w, r, TypeError), r, TypeError)
             ELSE Query([w EXCEPT !.req[r].pc = "body"], r, SQL, TRUE)
        ELSE Return(release(w, r), r,
                    Payload(FALSE, {"rowCount", "command", "rows"}, "",
                            NoError, 0, rows))

\* execute: a database call of the try or the catch block settled
ExecuteBranch(w, r, ok, error, rows) ==
    LET pc == w.req[r].pc
    IN  IF pc = "rollback"
        THEN ExecuteRethrow(IF ok THEN w ELSE Warn(w, r), r)
        ELSE IF ~ok THEN ExecuteCatch(w, r, error)
        ELSE IF pc = "begin"
        THEN IF w.req[r].sql = Undefined
             THEN ExecuteCatch(Fails(w, r, TypeError), r, TypeError)
             ELSE Query([w EXCEPT !.req[r].pc = "body"], r, SQL, TRUE)
        ELSE IF pc = "body"
        THEN Query([w EXCEPT !.req[r].pc = "commit"], r, COMMIT, TRUE)
        ELSE Return(release(w, r), r,
                    Payload(FALSE, {"rowCount", "command", "rows"}, "",
                            NoError, 0, rows))

\* countTables tool: the two inner guards around countTables(pool) and
\* getTableDetails(pool)
CountFailed(w, r, error) ==
    Return(w, r, Payload(TRUE, {"error"}, "Failed to count tables: ",
                         error, 0, <<>>))

\* mutant: the second inner guard answers like the first
DetailsFailed_DropsCount(w, r, error) ==
    Return(w, r, Payload(TRUE, {"error"}, "Failed to get table details: ",
                         error, 0, <<>>))

DetailsFailed(w, r, error) ==
    Return(w, r, Payload(TRUE, {"tableCount", "error"},
                         "Failed to get table details: ", error,
                         w.req[r].tableCount, <<>>))

\* mutant: the handler goes on to getTableDetails whatever countTables did
countTables_IgnoresFailure(w, r, ok, error, rows) ==
    connect([release(w, r) EXCEPT !.req[r].fn = "getTableDetails"], r)

\* mutant: the handler asks for the details with the count's client in hand
countTables_KeepsClient(w, r, ok, error, rows) ==
    IF ~ok THEN CountFailed(release(w, r), r, error)
    ELSE connect([w EXCEPT !.req[r].tableCount = parseInt(rows[1]),
                           !.req[r].fn = "getTableDetails"], r)

\* mutant: the handler goes on without keeping what countTables returned
countTables_DropsCount(w, r, ok, error, rows) ==
    LET w1 == release(w, r)
    IN  IF ~ok THEN CountFailed(w1, r, error)
        ELSE connect([w1 EXCEPT !.req[r].fn = "getTableDetails"], r)

\* tools/tables.ts countTables(pool), after its query, then the handler
countTables(w, r, ok, error, rows) ==
    LET w1 == release(w, r)
    IN  IF ~ok THEN CountFailed(w1, r, error)
        ELSE connect([w1 EXCEPT !.req[r].tableCount = parseInt(rows[1]),
                                !.req[r].fn = "getTableDetails"], r)

\* result.rows of a result that has no rows array (no table is numbered 0)
NoRows == <<0>>

\* mutant: no outer guard, what the assembly throws leaves the handler
OuterGuard_Rethrows(w, r, error) == Throw(w, r, error)

\* countTables tool: the outer guard
OuterGuard(w, r, error) ==
    Return(w, r, Payload(TRUE, {"error"}, "Unexpected error: ", error,
                         0, <<>>))

\* countTables tool: the response built from tableCount and tableDetails;
\* tableDetails.map(...) throws when tableDetails is not an array
Assemble(w, r, rows) ==
    IF rows = NoRows
    THEN OuterGuard(Fails(w, r, TypeError), r, TypeError)
    ELSE Return(w, r, Payload(FALSE, {"tableCount", "tables"}, "",
                              NoError, w.req[r].tableCount, rows))

\* tools/tables.ts getTableDetails(pool), after its query, then the handler
getTableDetails(w, r, ok, error, rows) ==
    LET w1 == release(w, r)
    IN  IF ~ok THEN DetailsFailed(w1, r, error)
        ELSE Assemble(w1, r, rows)

\* list-resources and read-resource, after their query
Resources(w, r, ok, error, rows) ==
    LET w1 == release(w, r)
    IN  IF ~ok THEN Throw(w1, r, error)
        ELSE Return(w1, r, Payload(FALSE,
                        IF w.req[r].fn = "listResources"
                        THEN {"resources"} ELSE {"contents"},
                        "", NoError, 0, rows))

\* an awaited client.query() of request r settled
Settled(w, r, ok, error, rows) ==
    LET fn == w.req[r].fn
    IN  CASE fn = "query" -> QueryBranch(w, r, ok, error, rows)
          [] fn = "execute" -> ExecuteBranch(w, r, ok, error, rows)
          [] fn = "countTables" -> countTables(w, r, ok, error, rows)
          [] fn = "getTableDetails" -> getTableDetails(w, r, ok, error, rows)
          [] OTHER -> Resources(w, r, ok, error, rows)

\* await pool.connect() of request r failed: outside every try block in
\* index.ts, inside the handler's inner guards for the countTables tool
ConnectFailed(w, r, error) ==
    LET fn == w.req[r].fn
        w1 == Log(Fails(w, r, error), r, "connect", error[1], 0)
    IN  CASE fn = "countTables" -> CountFailed(w1, r, error)
          [] fn = "getTableDetails" -> DetailsFailed(w1, r, error)
          [] OTHER -> Throw(w1, r, error)

Become(w) ==
    \E x \in {w} :
        /\ req' = x.req
        /\ conn' = x.conn
        /\ idle' = x.idle
        /\ pendingQueue' = x.pendingQueue
        /\ UNCHANGED <<formatted, options>>

\* ----------------------------------------------------------------- inputs
ToolNames == {"query", "execute", "countTables", "other"}

SqlInputs ==
    {<<Select>>, Undefined}
        \union {<<Create(t)>> : t \in Tables}
        \union {<<Commit, Create(t)>> : t \in Tables}

\* resourceUrl.pathname.split("/")
UriInputs ==
    {<<"", "t1", "schema">>, <<"", "t1", "columns">>, <<"", "t1", "schema", "">>}

\* ---------------------------------------------------------------- actions
\* mutant: the handler acquires a connection before it looks at the name
CallTool_ConnectsFirst(r, name, sql) ==
    /\ req[r].pc = "new"
    /\ Become(connect([World EXCEPT !.req[r].name = name, !.req[r].fn = name,
                                    !.req[r].sql = sql], r))
    /\ UNCHANGED db

\* server.setRequestHandler(CallToolRequestSchema, ...), up to its first await
CallTool(r, name, sql) ==
    /\ req[r].pc = "new"
    /\ LET w == [World EXCEPT !.req[r].name = name, !.req[r].fn = name,
                              !.req[r].sql = sql]
       IN  IF name \in {"query", "execute", "countTables"}
           THEN Become(connect(w, r))
           ELSE Become(Throw(w, r, UnknownTool(name)))
    /\ UNCHANGED db

\* server.setRequestHandler(ListResourcesRequestSchema, ...)
ListResources(r) ==
    /\ req[r].pc = "new"
    /\ Become(connect([World EXCEPT !.req[r].name = "listResources",
                                    !.req[r].fn = "listResources"], r))
    /\ UNCHANGED db

\* mutant: the handler acquires a connection before it validates the URI
ReadResource_ConnectsFirst(r, uri) ==
    /\ req[r].pc = "new"
    /\ Become(connect([World EXCEPT !.req[r].name = "readResource",
                                    !.req[r].fn = "readResource",
                                    !.req[r].uri = uri], r))
    /\ UNCHANGED db

\* server.setRequestHandler(ReadResourceRequestSchema, ...)
ReadResource(r, uri) ==
    /\ req[r].pc = "new"
    /\ LET w == [World EXCEPT !.req[r].name = "readResource",
                              !.req[r].fn = "readResource",
                              !.req[r].uri = uri]
           schema == uri[Len(uri)]
       IN  IF schema # SCHEMA_PATH
           THEN Become(Throw(w, r, InvalidResourceURI))
           ELSE Become(connect(w, r))
    /\ UNCHANGED db

\* a client the pool is opening connects, or fails to
ClientConnected(c, ok) ==
    /\ conn[c].st = "connecting"
    /\ LET r == conn[c].holder
       IN  IF ok
           THEN Become(_acquireClient(World, c, r))
           ELSE Become(ConnectFailed(
                    _pulseQueue([World EXCEPT !.conn[c] = NewClient]),
                    r, ConnectError))
    /\ UNCHANGED db

\* connectionTimeoutMillis elapses for a caller waiting in the pool's queue
ConnectTimeout(r) ==
    /\ \E i \in 1..Len(pendingQueue) : pendingQueue[i] = r
    /\ Become(ConnectFailed(
           [World EXCEPT !.pendingQueue = SelectSeq(@, LAMBDA x : x # r)],
           r, PoolExhausted))
    /\ UNCHANGED db

\* the database answers the message at the head of a client's queue; fail
\* is a failure of the call for a reason of its own (the server or the
\* driver rejects the message): the message then has no effect, and a
\* transaction block it was sent in is left aborted
Answer(c, fail, norows) ==
    /\ conn[c].queryQueue # <<>>
    /\ LET q == Head(conn[c].queryQueue)
           s == Execute(conn[c].txn, conn[c].writes, db, q.text, fail)
           rows == IF norows THEN NoRows
                   ELSE Rows(q.stmt, db \union conn[c].writes)
           w == [World EXCEPT !.conn[c].queryQueue = Tail(@),
                              !.conn[c].txn = s.txn,
                              !.conn[c].writes = s.writes]
           w1 == [w EXCEPT !.req[q.by].wrote = @ \/ s.db # db,
                               !.req[q.by].counted =
                                   IF s.ok /\ q.stmt = COUNT_QUERY
                                   THEN rows[1] ELSE @,
                               !.req[q.by].seen =
                                   IF s.ok /\ q.stmt = COUNT_QUERY
                                   THEN db \union conn[c].writes ELSE @]
       IN  /\ ~Hangs(q.text)
           /\ norows => q.stmt = DETAIL_QUERY /\ s.ok
           /\ db' = s.db
           /\ IF q.awaited
              THEN Become(Settled(IF s.ok THEN w1
                                  ELSE Fails(w1, q.by, QueryError(q.stmt)),
                                  q.by, s.ok, QueryError(q.stmt),
                                  IF q.stmt = COUNT_QUERY
                                  THEN <<ToDecimal(rows[1])>> ELSE rows))
              ELSE Become(IF s.ok THEN w1 ELSE Warn(w1, q.by))

DbExec(c, fail) == Answer(c, fail, FALSE)

\* the database answers the detail query and the driver hands the handler
\* a result without a rows array
DbNoRows(c) == Answer(c, FALSE, TRUE)

\* ------------------------------------------------------------------- Next
\* Requests are numbered in the order they arrive; the loading requests
\* arrive one by one, each once the one before runs its statement.
MayArrive(r) ==
    /\ \A q \in Reqs : q < r => req[q].pc # "new"
    /\ \A q \in 1..NumHung : q < r => req[q].pc = "body"

Next ==
    \/ \E r \in 1..NumHung :
           MayArrive(r) /\ CallTool(r, "execute", <<Sleep>>)
    \/ \E r \in Reqs \ (1..NumHung), name \in ToolNames, sql \in SqlInputs :
           /\ MayArrive(r)
           /\ name \in {"countTables", "other"} => sql = <<Select>>
           /\ CallTool(r, name, sql)
    \/ \E r \in Reqs \ (1..NumHung) : MayArrive(r) /\ ListResources(r)
    \/ \E r \in Reqs \ (1..NumHung), uri \in UriInputs :
           MayArrive(r) /\ ReadResource(r, uri)
    \/ \E c \in Clients, ok \in BOOLEAN : ClientConnected(c, ok)
    \/ \E r \in Reqs : ConnectTimeout(r)
    \/ \E c \in Clients, fail \in BOOLEAN : DbExec(c, fail)
    \/ \E c \in Clients : DbNoRows(c)

Spec == Init /\ [][Next]_vars

\* ================================================== requests that all finish
\* The server with no statement that never returns: NumLive requests of any
\* kind, and a pool of one to MaxPool clients for them to share.
LiveReqs == 1..NumLive

LiveInit ==
    /\ req = [r \in Reqs |-> NewRequest]
    /\ conn = [c \in Clients |-> NewClient]
    /\ idle = <<>>
    /\ pendingQueue = <<>>
    /\ db \in SUBSET Tables
    /\ formatted = NoCall
    /\ options \in {[max |-> n] : n \in 1..MaxPool}

LiveMayArrive(r) == \A q \in LiveReqs : q < r => req[q].pc # "new"

\* the database or the network answers a call a handler awaits
Answers ==
    \/ \E c \in Clients, ok \in BOOLEAN : ClientConnected(c, ok)
    \/ \E c \in Clients, fail \in BOOLEAN : DbExec(c, fail)

LiveNext ==
    \/ \E r \in LiveReqs, name \in ToolNames, sql \in SqlInputs :
           /\ LiveMayArrive(r)
           /\ name \in {"countTables", "other"} => sql = <<Select>>
           /\ CallTool(r, name, sql)
    \/ \E r \in LiveReqs : LiveMayArrive(r) /\ ListResources(r)
    \/ \E r \in LiveReqs, uri \in UriInputs :
           LiveMayArrive(r) /\ ReadResource(r, uri)
    \/ \E r \in LiveReqs : ConnectTimeout(r)
    \/ \E c \in Clients : DbNoRows(c)
    \/ Answers

\* a call is waiting for its answer: Answers can take a step
AnswerPending ==
    \E c \in Clients :
        \/ conn[c].st = "connecting"
        \/ /\ conn[c].queryQueue # <<>>
           /\ ~Hangs(Head(conn[c].queryQueue).text)

\* WF_vars(Answers), its ENABLED <<Answers>>_vars written as AnswerPending:
\* every call that is awaited is answered in the end. The timer of a
\* request waiting for a client may fire or not.
AnswersFair == []<>(~AnswerPending) \/ []<><<Answers>>_vars

LiveSpec == LiveInit /\ [][LiveNext]_vars /\ AnswersFair

\* ============================================================= formatBytes
\* A size is a JavaScript number holding a non-negative integer, written as
\* its digits in base 1024, the most significant first; zero has no digit.
k == 1024

sizes == <<"Bytes", "KB", "MB", "GB", "TB", "PB", "EB", "ZB", "YB">>

Digit(x, j) == IF j <= Len(x) THEN x[j] ELSE 0

BitLength(d) == CHOOSE b \in 1..10 : 2^(b - 1) <= d /\ d < 2^b
TrailingZeros(d) == CHOOSE z \in 0..9 : d % 2^z = 0 /\ d % 2^(z + 1) # 0

\* the integer is a double: its binary digits from the first to the last
\* that is set are 53 at most
IsDouble(x) ==
    \/ x = <<>>
    \/ /\ x[1] \in 1..(k - 1)
       /\ LET last == CHOOSE j \in 1..Len(x) :
                          x[j] # 0 /\ \A m \in (j + 1)..Len(x) : x[m] = 0
          IN  BitLength(x[1]) + 10 * (last - 1) - TrailingZeros(x[last]) <= 53

\* For each n, how many of the doubles just below 1024^n have a quotient
\* Math.log(x) / Math.log(1024) that is not below n: the logarithm of the
\* runtime (fdlibm's __ieee754_log) rounds to 53 bits and so does the
\* division, and this close to a power of 1024 the quotient rounds to n.
\* Everywhere else, and at the powers themselves, the floor is exact.
LogSlack == <<4, 8, 24, 16, 24, 48, 8, 32, 56, 48, 8, 97, 57, 17>>

\* Math.floor(Math.log(bytes) / Math.log(k)) for bytes >= 1. The doubles
\* below 1024^n are 2^(10n - 53) apart, which is 128 units of the sixth
\* digit of bytes.
FloorLog(bytes) ==
    LET n == Len(bytes)
        below == k * k - (Digit(bytes, 5) * k + Digit(bytes, 6))
    IN  IF /\ \A j \in 1..4 : Digit(bytes, j) = k - 1
           /\ below <= LogSlack[n] * 128
        THEN n
        ELSE n - 1

\* the digits of 100 times a fraction 0.f, with the carry into the integers
RECURSIVE Times100(_)
Times100(f) ==
    IF f = <<>> THEN [carry |-> 0, digits |-> <<>>]
    ELSE LET rest == Times100(Tail(f))
             p == f[1] * 100 + rest.carry
         IN  [carry |-> p \div k, digits |-> <<p % k>> \o rest.digits]

\* (bytes / Math.pow(k, i)).toFixed(dm) with dm = 2, in hundredths: the
\* division is exact, toFixed rounds the exact value, a half rounding up
toFixed(bytes, i) ==
    LET whole == IF i = Len(bytes) - 1 THEN bytes[1] ELSE 0
        f == IF i = Len(bytes) - 1 THEN Tail(bytes) ELSE bytes
        p == Times100(f)
        up == IF p.digits # <<>> /\ p.digits[1] >= k \div 2 THEN 1 ELSE 0
    IN  whole * 100 + p.carry + up

\* parseFloat(...) + "": the shortest decimal of a number of hundredths
parseFloat(h) ==
    ToString(h \div 100)
        \o (IF h % 100 = 0 THEN ""
            ELSE "." \o ToString((h % 100) \div 10)
                     \o (IF h % 10 = 0 THEN "" ELSE ToString(h % 10)))

\* formatBytes(bytes) with the default decimals = 2
formatBytes(bytes) ==
    IF bytes = <<>>
    THEN [bytes |-> bytes, i |-> -1, unit |-> "Bytes", text |-> "0 Bytes"]
    ELSE LET i == FloorLog(bytes)
             unit == IF i + 1 <= Len(sizes) THEN sizes[i + 1] ELSE "undefined"
         IN  [bytes |-> bytes, i |-> i, unit |-> unit,
              text |-> parseFloat(toFixed(bytes, i)) \o " " \o unit]

\* the sizes the function is given: a leading digit, a run of the largest
\* digit, one or two digits more and a run of zeros
Repeat(d, n) == [j \in 1..n |-> d]

SizeInputs ==
    {<<>>} \union
    {x \in {<<lead>> \o Repeat(k - 1, n) \o tail \o Repeat(0, m) :
                lead \in {1, 512, k - 1}, n \in 0..4, m \in 0..MaxDigits,
                tail \in {<<>>, <<512>>, <<k - 4>>, <<k - 3>>, <<k - 1>>,
                          <<k - 1, 128>>, <<k - 1, 512>>, <<k - 1, k - 128>>}} :
        Len(x) <= MaxDigits /\ IsDouble(x)}

FormatInit ==
    /\ req = [r \in Reqs |-> NewRequest]
    /\ conn = [c \in Clients |-> NewClient]
    /\ idle = <<>>
    /\ pendingQueue = <<>>
    /\ db = {}
    /\ formatted \in {[NoCall EXCEPT !.bytes = x] : x \in SizeInputs}
    /\ options = [max |-> max]

\* sizeFormatted: formatBytes(parseInt(table.size_bytes, 10))
FormatBytes ==
    /\ formatted.text = ""
    /\ formatted' = formatBytes(formatted.bytes)
    /\ UNCHANGED <<req, conn, idle, pendingQueue, db, options>>

FormatSpec == FormatInit /\ [][FormatBytes]_vars

\* =================================================================== claims
Done(r) == req[r].pc = "done"

\* positions of the log of r holding an event of one kind
Events(r, what) == {i \in 1..Len(req[r].log) : req[r].log[i][1] = what}

Acquisitions(r) == {i \in Events(r, "connect") : req[r].log[i][2] = "ok"}
Releases(r) == Events(r, "release")
Queries(r, stmt) == {i \in Events(r, "query") : req[r].log[i][2] = stmt}

\* the clients r was given by the pool and has not released since
Holding(r) ==
    {req[r].log[i][3] : i \in
        {a \in Acquisitions(r) :
            \A j \in Releases(r) :
                a < j => req[r].log[j][3] # req[r].log[a][3]}}

Holds(r, c) == c \in Holding(r)

\* C1: every handler releases each connection it acquired exactly once, on
\* every exit path, and never releases after a failed acquisition: each
\* release follows the acquisition of that same connection with no other
\* release in between, and once a request has finished its releases equal
\* its successful acquisitions and no client is leased to it.
C1_ReleaseOncePerAcquisition ==
    \A r \in Reqs :
        /\ \A j \in Releases(r) :
               \E i \in Acquisitions(r) :
                   /\ i < j
                   /\ req[r].log[i][3] = req[r].log[j][3]
                   /\ \A b \in Releases(r) \union Acquisitions(r) :
                          ~(i < b /\ b < j)
        /\ Cardinality(Acquisitions(r)) - Cardinality(Releases(r)) \in {0, 1}
        /\ Done(r) =>
               /\ Cardinality(Releases(r)) = Cardinality(Acquisitions(r))
               /\ \A c \in Clients : conn[c].holder # r

\* all the free requests have finished: one threw after its statement failed,
\* one failed to acquire, and the releases add up to the acquisitions
C1_Witness ==
    /\ \A r \in Reqs \ (1..NumHung) : Done(r)
    /\ \E r \in Reqs :
           /\ req[r].response.how = "throw"
           /\ req[r].first = QueryError(SQL)
           /\ Cardinality(Acquisitions(r)) = 1
           /\ Cardinality(Releases(r)) = 1
    /\ \E r \in Reqs :
           /\ Done(r)
           /\ req[r].first = PoolExhausted
           /\ Releases(r) = {}

\* the text holds a statement that changes the database
Mutating(text) == \E i \in 1..Len(text) : text[i].op = "CREATE"

\* C2: a query tool call never mutates the database: whatever the SQL text
\* (several statements, transaction control), no message of a query call
\* changes the committed tables, and a call whose text holds a mutating
\* statement fails.
C2_QueryNeverMutates ==
    \A r \in Reqs :
        req[r].name = "query" =>
            /\ ~req[r].wrote
            /\ Done(r) /\ Mutating(req[r].sql) => req[r].response.how = "throw"

\* the first failure of r is a failure of a database call made on its client
FailedOnClient(r) == req[r].first # NoError /\ req[r].first[2] # "connect"

\* the ROLLBACKs r issued on the client it acquired, before releasing it
RollbacksOnClient(r) ==
    {i \in Queries(r, ROLLBACK) :
        /\ \E a \in Acquisitions(r) : a < i /\ req[r].log[a][3] = req[r].log[i][3]
        /\ \A j \in Releases(r) : i < j}

\* C3: when an execute call fails at BEGIN, at the caller's SQL or at COMMIT,
\* a ROLLBACK is issued on the same connection and awaited before the caller
\* gets anything, and what the caller gets is the original error thrown,
\* also when the ROLLBACK fails.
C3_ExecuteRollsBackThenRethrows ==
    \A r \in Reqs :
        req[r].name = "execute" /\ FailedOnClient(r) =>
            /\ RollbacksOnClient(r) # {}
            /\ ~Done(r) => req[r].pc = "rollback"
            /\ Done(r) => /\ req[r].response.how = "throw"
                          /\ req[r].response.error = req[r].first

\* an execute call whose COMMIT failed and whose ROLLBACK failed too has
\* thrown the error of the COMMIT
C3_Witness ==
    \E r \in Reqs \ (1..NumHung) :
        /\ req[r].name = "execute"
        /\ Done(r)
        /\ req[r].first = QueryError(COMMIT)
        /\ Events(r, "warn") # {}
        /\ req[r].response.error = QueryError(COMMIT)

\* C4: when a query call fails at BEGIN TRANSACTION READ ONLY or at the
\* caller's SQL, the ROLLBACK has been issued on its connection by the time
\* the caller gets the error, and the caller gets the original error, also
\* after the ROLLBACK has failed.
C4_QueryRethrowsOriginal ==
    \A r \in Reqs :
        req[r].name = "query" /\ FailedOnClient(r) =>
            /\ RollbacksOnClient(r) # {}
            /\ Done(r)
            /\ req[r].response.how = "throw"
            /\ req[r].response.error = req[r].first

\* a query call whose SQL failed, and whose ROLLBACK then failed as well,
\* has thrown the error of the SQL
C4_Witness ==
    \E r \in Reqs :
        /\ req[r].name = "query"
        /\ Done(r)
        /\ req[r].first = QueryError(SQL)
        /\ Events(r, "warn") # {}
        /\ req[r].response.error = QueryError(SQL)

\* C5: the database calls of one request are strictly sequential and end
\* before the connection is released: a request has at most one statement
\* in flight, and every statement in flight on a client was issued by the
\* request the client is leased to.
C5_SequentialUntilRelease ==
    \A c \in Clients :
        \A i \in 1..Len(conn[c].queryQueue) :
            /\ conn[c].st = "leased"
            /\ conn[c].queryQueue[i].by = conn[c].holder
            /\ \A j \in 1..Len(conn[c].queryQueue) :
                   conn[c].queryQueue[j].by = conn[c].queryQueue[i].by => i = j

\* --------------------------------------------------------------- the pool
CheckedOut == UNION {Holding(r) : r \in Reqs}

\* the number of (request, client) pairs with the request holding the client
RECURSIVE Leases(_)
Leases(R) ==
    IF R = {} THEN 0
    ELSE LET r == CHOOSE x \in R : TRUE
         IN  Cardinality(Holding(r)) + Leases(R \ {r})
Waiting(r) == \E i \in 1..Len(pendingQueue) : pendingQueue[i] = r
Waited(r) == \E i \in Events(r, "connect") : req[r].log[i][2] = "wait"
TimedOut(r) ==
    \E i \in Events(r, "connect") : req[r].log[i][2] = PoolExhausted[1]

\* C6: in every reachable state at most max = 20 connections are checked
\* out of the pool, and no connection is held by two requests at once (the
\* leases are as many as the clients checked out).
C6_PoolBound ==
    /\ Cardinality(CheckedOut) <= 20
    /\ Cardinality({c \in Clients : conn[c].st # "absent"}) <= 20
    /\ Leases(Reqs) = Cardinality(CheckedOut)

\* all 20 connections are checked out and a further caller waits
C6_Witness ==
    /\ Cardinality(CheckedOut) = 20
    /\ pendingQueue # <<>>

\* what C7 says of the states
C7_Blocked ==
    /\ pendingQueue # <<>> =>
           /\ idle = <<>>
           /\ Cardinality({c \in Clients : conn[c].st # "absent"}) = max
    /\ \A r \in Reqs : Waiting(r) => req[r].pc = "connect" /\ Holding(r) = {}
    /\ Cardinality(CheckedOut) = max =>
           \A r \in Reqs : req[r].pc = "connect" => Waiting(r)

\* a request whose acquisition timed out has failed with PoolExhausted, and
\* the timeout is the last thing it did
C7_TimeoutEnds(r) ==
    TimedOut(r) =>
        /\ Done(r)
        /\ req[r].log[Len(req[r].log)] = <<"connect", PoolExhausted[1], 0>>
        /\ req[r].response.error = PoolExhausted

\* C7 as stated: with all 20 connections held a further acquirer waits; it
\* fails with PoolExhausted when the timeout elapses, and in that case the
\* request issues no database statement.
C7_TimeoutIssuesNoStatement ==
    /\ C7_Blocked
    /\ \A r \in Reqs :
           /\ C7_TimeoutEnds(r)
           /\ TimedOut(r) => Events(r, "query") = {}

\* C7 as amended: with all 20 connections held a further acquirer waits
\* until a holder releases, and then gets the released connection, or fails
\* with PoolExhausted; after the timeout the request issues no statement,
\* and before it only the count statement of a countTables call whose
\* detail step is the one that timed out.
C7_WaitsForReleaseOrTimesOut ==
    /\ [](/\ C7_Blocked
          /\ \A r \in Reqs :
                 /\ C7_TimeoutEnds(r)
                 /\ TimedOut(r) =>
                        \A i \in Events(r, "query") :
                            /\ req[r].fn = "getTableDetails"
                            /\ req[r].log[i][2] = COUNT_QUERY)
    /\ [][\A r \in Reqs :
              Waiting(r) /\ ~Waiting(r)' /\ Cardinality(CheckedOut) = max =>
                  \/ TimedOut(r)'
                  \/ \E h \in Reqs \ {r} :
                         \E c \in Holding(h) :
                             ~Holds(h, c)' /\ Holds(r, c)']_vars

\* one request waited and got the connection another released; a
\* countTables call then timed out waiting for its detail step
C7_Witness ==
    /\ \E r \in Reqs : Waited(r) /\ Acquisitions(r) # {}
    /\ \E r \in Reqs :
           /\ TimedOut(r)
           /\ req[r].fn = "getTableDetails"
           /\ Events(r, "query") # {}

\* ------------------------------------------------------- countTables tool
\* C8: in a countTables call, when the count step succeeded and the detail
\* step (its acquisition or its query) fails, the response is returned with
\* isError = true, holds the tableCount obtained and an error starting
\* "Failed to get table details: ", and holds no tables.
C8_DetailFailureKeepsCount ==
    \A r \in Reqs :
        req[r].name = "countTables" /\ req[r].counted >= 0
                /\ req[r].first \notin {NoError, TypeError} =>
            /\ Done(r)
            /\ req[r].response.how = "return"
            /\ req[r].response.isError
            /\ req[r].response.keys = {"tableCount", "error"}
            /\ req[r].response.prefix = "Failed to get table details: "
            /\ req[r].response.error = req[r].first
            /\ req[r].response.tableCount = req[r].counted

\* the database counted one table and the detail query then failed
C8_Witness ==
    \E r \in Reqs :
        /\ req[r].name = "countTables"
        /\ req[r].counted = 1
        /\ req[r].first = QueryError(DETAIL_QUERY)
        /\ req[r].response.tableCount = 1

\* C9: in a countTables call, when the count step fails (its connection
\* acquisition or its query), the response is returned with isError = true
\* and only an error starting "Failed to count tables: ", and the detail
\* step is never started: no second acquisition, no detail statement.
C9_CountFailureStops ==
    \A r \in Reqs :
        req[r].name = "countTables" /\ req[r].counted < 0
                /\ req[r].first # NoError =>
            /\ Done(r)
            /\ req[r].response.how = "return"
            /\ req[r].response.isError
            /\ req[r].response.keys = {"error"}
            /\ req[r].response.prefix = "Failed to count tables: "
            /\ req[r].response.error = req[r].first
            /\ req[r].fn = "countTables"
            /\ Queries(r, DETAIL_QUERY) = {}
            /\ Cardinality(Events(r, "connect") \ Acquisitions(r)) +
                   Cardinality(Acquisitions(r)) <= 2
            /\ Cardinality(Acquisitions(r)) <= 1
            /\ \A i \in Events(r, "query") : req[r].log[i][2] = COUNT_QUERY

\* one countTables call failed at its count query, another at acquiring
C9_Witness ==
    /\ \E r \in Reqs :
           req[r].name = "countTables" /\ req[r].first = QueryError(COUNT_QUERY)
    /\ \E r \in Reqs :
           /\ req[r].name = "countTables"
           /\ req[r].first = PoolExhausted
           /\ Acquisitions(r) = {}

\* ------------------------------------------------------------ the dispatch
KnownNames == {"", "query", "execute", "countTables", "listResources",
               "readResource"}

\* C10: a tool call whose name is none of query, execute, countTables
\* throws UnknownTool having acquired no connection and issued no statement,
\* and the step that handles it leaves the pool and the database unchanged.
C10_UnknownToolTouchesNothing ==
    /\ [](\A r \in Reqs :
              req[r].name \notin KnownNames =>
                  /\ Done(r)
                  /\ req[r].response.how = "throw"
                  /\ req[r].response.error = UnknownTool(req[r].name)
                  /\ req[r].log = <<>>
                  /\ \A c \in Clients : conn[c].holder # r)
    /\ [][\A r \in Reqs :
              req[r].pc = "new" /\ req'[r].name \notin KnownNames =>
                  /\ conn' = conn
                  /\ idle' = idle
                  /\ pendingQueue' = pendingQueue
                  /\ db' = db]_vars

\* an unknown tool was called while another request held a connection and
\* ran a statement on it
C10_Witness ==
    \E r \in Reqs, h \in Reqs \ (1..NumHung) :
        /\ req[r].name \notin KnownNames
        /\ Done(r)
        /\ \E c \in Clients : Holds(h, c) /\ conn[c].queryQueue # <<>>

\* ----------------------------------------------------------- the resources
\* the URI of r does not end in the schema segment
InvalidUri(r) ==
    /\ req[r].name = "readResource"
    /\ req[r].uri[Len(req[r].uri)] # SCHEMA_PATH

\* C11: a read-resource request whose URI's last path segment is not
\* "schema" throws InvalidResourceURI having acquired no connection and
\* issued no statement, and the step that handles it leaves the pool and
\* the database unchanged.
C11_InvalidUriTouchesNothing ==
    /\ [](\A r \in Reqs :
              InvalidUri(r) =>
                  /\ Done(r)
                  /\ req[r].response.how = "throw"
                  /\ req[r].response.error = InvalidResourceURI
                  /\ req[r].log = <<>>
                  /\ ~Waiting(r)
                  /\ \A c \in Clients : conn[c].holder # r)
    /\ [][\A r \in Reqs :
              req[r].pc = "new" /\ InvalidUri(r)' =>
                  /\ conn' = conn
                  /\ idle' = idle
                  /\ pendingQueue' = pendingQueue
                  /\ db' = db]_vars

\* a read of an invalid URI was refused while every connection of the pool
\* was taken and another request was running a statement
C11_Witness ==
    \E r \in Reqs, h \in Reqs \ (1..NumHung) :
        /\ InvalidUri(r)
        /\ Done(r)
        /\ isFull(World)
        /\ pendingQueue = <<>>
        /\ \E c \in Clients : Holds(h, c) /\ conn[c].queryQueue # <<>>

\* ---------------------------------------------------------- tool failures
ToolCall(r) == req[r].name \in {"query", "execute", "countTables"}

\* C12: every failure of a tool call (query, execute or countTables, at any
\* step, the acquisition of the connection included) reaches the caller as
\* a returned payload with isError = true and an error message, never as a
\* raised error.
C12_FailuresAreReturned ==
    \A r \in Reqs :
        ToolCall(r) /\ Done(r) /\ req[r].first # NoError =>
            /\ req[r].response.how = "return"
            /\ req[r].response.isError
            /\ "error" \in req[r].response.keys

\* ------------------------------------------------------------- the commit
\* the statements r issued, in the order it issued them
Issued(r) == SelectSeq(req[r].log, LAMBDA e : e[1] = "query")

\* the tables the text of r creates
Created(r) ==
    {t \in Tables : \E i \in 1..Len(req[r].sql) : req[r].sql[i] = Create(t)}

Formatted == formatted.text # ""

\* floor(log_1024(bytes)) of a size of one digit or more
ExactLog(bytes) == Len(bytes) - 1

\* C14: formatBytes(0) is "0 Bytes", and for bytes >= 1 the unit index is
\* floor(log_1024(bytes)), the i with 1 <= bytes / 1024^i < 1024, or the
\* index of the largest unit YB when bytes is beyond it.
C14_UnitIndexIsFloorLog ==
    Formatted =>
        IF formatted.bytes = <<>>
        THEN formatted.text = "0 Bytes"
        ELSE formatted.i = IF ExactLog(formatted.bytes) < Len(sizes)
                           THEN ExactLog(formatted.bytes)
                           ELSE Len(sizes) - 1

\* C15: for every bytes >= 1, the sizes of 1024^9 and more included, the
\* unit index stays within the nine units and the label of the result is
\* one of them.
C15_LabelIsOneOfNine ==
    Formatted /\ formatted.bytes # <<>> =>
        /\ formatted.i \in 0..(Len(sizes) - 1)
        /\ \E j \in 1..Len(sizes) : formatted.unit = sizes[j]

\* ------------------------------------------------- the countTables envelope
\* the step of the countTables tool that failed first
FailedStep(r) ==
    IF req[r].first = NoError THEN "none"
    ELSE IF req[r].first = TypeError THEN "assembly"
    ELSE IF req[r].first = QueryError(COUNT_QUERY) THEN "count"
    ELSE IF req[r].first = QueryError(DETAIL_QUERY) THEN "detail"
    ELSE IF Acquisitions(r) = {} THEN "count"
    ELSE "detail"

\* C16: the countTables tool never raises: whichever of the acquisitions,
\* the count query, the detail query and the assembly of the response
\* fails, the handler returns an envelope; isError is false exactly when
\* nothing failed, and then both queries ran; a failure the two inner
\* guards do not catch is answered with "Unexpected error: ".
C16_CountTablesNeverRaises ==
    \A r \in Reqs :
        req[r].name = "countTables" /\ Done(r) =>
            /\ req[r].response.how = "return"
            /\ req[r].response.isError <=> FailedStep(r) # "none"
            /\ req[r].response.isError <=> "error" \in req[r].response.keys
            /\ ~req[r].response.isError =>
                   /\ Queries(r, COUNT_QUERY) # {}
                   /\ Queries(r, DETAIL_QUERY) # {}
                   /\ req[r].response.keys = {"tableCount", "tables"}
            /\ req[r].response.prefix =
                   CASE FailedStep(r) = "none" -> ""
                     [] FailedStep(r) = "count" -> "Failed to count tables: "
                     [] FailedStep(r) = "detail" ->
                            "Failed to get table details: "
                     [] FailedStep(r) = "assembly" -> "Unexpected error: "

\* one countTables call was answered by the outer guard and another one
\* succeeded
C16_Witness ==
    \E r \in Reqs, o \in Reqs :
        /\ req[r].name = "countTables"
        /\ Done(r)
        /\ req[r].response.prefix = "Unexpected error: "
        /\ req[r].response.isError
        /\ req[o].name = "countTables"
        /\ Done(o)
        /\ ~req[o].response.isError

\* ---------------------------------------------------- transactions left open
\* the statements a request runs first on a connection it was given
LeaseFirst == {BEGIN_RO, BEGIN_RW, COUNT_QUERY, DETAIL_QUERY, LIST_QUERY,
               COLUMNS_QUERY}

\* C17: no statement of one request runs inside a transaction another
\* request opened: when the statement the database runs next on a
\* connection is the first one of the request the connection was given to,
\* no transaction block is open on the connection, whether the ROLLBACK or
\* COMMIT of the holder before failed or was still queued at the release.
C17_NoForeignTransaction ==
    \A c \in Clients :
        /\ conn[c].queryQueue # <<>>
        /\ Head(conn[c].queryQueue).stmt \in LeaseFirst
        => conn[c].txn = "none"

\* --------------------------------------------------- count against details
\* a countTables call that was answered with the count and the details
Counted(r) ==
    /\ req[r].name = "countTables"
    /\ Done(r)
    /\ ~req[r].response.isError

Listed(r) == {req[r].response.rows[i] : i \in 1..Len(req[r].response.rows)}

\* C18 as claimed: in every countTables response with isError = false,
\* tableCount is the number of entries of tables, whatever other requests
\* did between the count step and the detail step.
C18_CountEqualsEntries ==
    \A r \in Reqs :
        Counted(r) => req[r].response.tableCount = Len(req[r].response.rows)

\* C18 as amended: in every countTables response with isError = false,
\* tableCount is the number of tables the count step read and tables lists
\* the tables the detail step read; the two are equal when the tables did
\* not change between the two steps, and otherwise differ by the tables
\* created in between (the statements of the model drop none).
C18_CountAndEntriesAsRead ==
    \A r \in Reqs :
        Counted(r) =>
            /\ req[r].response.tableCount = Cardinality(req[r].seen)
            /\ Len(req[r].response.rows) = Cardinality(Listed(r))
            /\ req[r].seen \subseteq Listed(r)
            /\ Listed(r) \subseteq db
            /\ Listed(r) = req[r].seen =>
                   req[r].response.tableCount = Len(req[r].response.rows)

\* a countTables call counted the one table there was and listed it, and
\* an execute call that ran along with it failed to create that table
C18_Witness ==
    \E r \in Reqs, o \in Reqs :
        /\ Counted(r)
        /\ req[r].seen = Listed(r)
        /\ req[r].response.tableCount = 1
        /\ req[o].name = "execute"
        /\ Done(o)
        /\ Created(o) # {}

\* ------------------------------------------------ one connection a request
\* the clients the pool has given to r or is opening for r
Owned(r) == {c \in Clients : conn[c].holder = r}

\* C19: a request in flight holds at most one connection: the pool has at
\* most one client out for it, it never waits for a client with one in
\* hand, and each acquisition after its first comes after the release of
\* the client before (the countTables tool releases the client of its
\* count step before it asks for the client of its detail step).
C19_OneConnectionPerRequest ==
    \A r \in Reqs :
        /\ Cardinality(Holding(r)) <= 1
        /\ Cardinality(Owned(r)) <= 1
        /\ Holding(r) \subseteq Owned(r)
        /\ Waiting(r) \/ req[r].pc = "connect" => Holding(r) = {}
        /\ \A i \in Acquisitions(r), j \in Events(r, "connect") :
               i < j => \E b \in Releases(r) : i < b /\ b < j

\* a countTables call is in its detail step with the second client it was
\* given, which it had to wait for, the first one released
C19_Witness ==
    \E r \in Reqs :
        /\ req[r].fn = "getTableDetails"
        /\ Cardinality(Acquisitions(r)) = 2
        /\ Cardinality(Releases(r)) = 1
        /\ Cardinality(Holding(r)) = 1
        /\ Waited(r)

\* ------------------------------------------------------------- termination
\* r has arrived and has not got its response or its error yet
InFlight(r) == req[r].pc \notin {"new", "done"}

\* C20: every call awaited being answered in the end, every request that
\* arrives ends with a response or with an error, one of the two, and stays
\* as it ended; whenever no request is in flight no client is checked out,
\* none is being opened and nobody waits for one: the pool does not
\* deadlock, for one client or more and for requests arriving together.
C20_EveryRequestEnds ==
    /\ \A r \in LiveReqs : InFlight(r) ~> Done(r)
    /\ [](\A r \in LiveReqs :
              Done(r) <=> req[r].response.how \in {"return", "throw"})
    /\ [][\A r \in LiveReqs :
              Done(r) => Done(r)' /\ req'[r].response = req[r].response]_vars
    /\ []((\A r \in LiveReqs : ~InFlight(r)) =>
              /\ CheckedOut = {}
              /\ pendingQueue = <<>>
              /\ \A c \in Clients : conn[c].st \in {"absent", "idle"})

\* all the requests have ended, one of them having waited for the only
\* client while another held it, and one having failed
C20_Witness ==
    /\ \A r \in LiveReqs : Done(r)
    /\ options.max = 1
    /\ \E r \in LiveReqs :
           Waited(r) /\ Acquisitions(r) # {} /\ req[r].response.how = "return"
    /\ \E r \in LiveReqs : req[r].response.how = "throw"
====
